---- MODULE Spec2Model ----
(***************************************************************************)
(* Model of the template editor of event-canvas-art: the useCanvas hook    *)
(* (element list, selection, background, artboard size), the transform     *)
(* reconciliation of CanvasStage (handleTransformEnd), the size controls   *)
(* of the PropertiesPanel and the template export / import; the Editor's   *)
(* publish and background upload, the templates table, the Generator's     *)
(* template load, the Transformer's boundBoxFunc and the ShapeRenderer.    *)
(*                                                                         *)
(* Numbers are integers.  A scale factor s is carried as the numerator of  *)
(* s = n / ScaleDen, so that Math.round(v * s) is computed exactly.        *)
(* JavaScript's undefined is the value Undef for numbers and UndefStr for  *)
(* strings; null is NoId for ids and NullImg for the background image.  An *)
(* element without strokes carries the empty list.                         *)
(***************************************************************************)
EXTENDS Integers, Sequences, FiniteSets, TLC

VARIABLES elements, selectedId, canvasSize, backgroundColor, backgroundImage,
          nodeScale, phase, gestures, saved, usedIds, lastOp,
          uploads, issued,
          isPublishing, publishedUrl, toasts, request, store,
          generator, fetches,
          lockAspectRatio, box, drags, nodes,
          renderProps, decoded, pattern

vars == <<elements, selectedId, canvasSize, backgroundColor, backgroundImage,
          nodeScale, phase, gestures, saved, usedIds, lastOp,
          uploads, issued,
          isPublishing, publishedUrl, toasts, request, store,
          generator, fetches,
          lockAspectRatio, box, drags, nodes,
          renderProps, decoded, pattern>>

\* The state of useCanvas and of the gesture in progress.
editorVars == <<elements, selectedId, canvasSize, backgroundColor, backgroundImage,
                nodeScale, phase, gestures, saved, usedIds>>

\* Background uploads being read or decoded.
uploadVars == <<uploads, issued>>

\* The Editor's publish state and the templates table.
publishVars == <<isPublishing, publishedUrl, toasts, request>>

\* The Generator page.
generatorVars == <<generator, fetches>>

\* The Transformer of CanvasStage.
transformerVars == <<lockAspectRatio, box, drags, nodes>>

\* The props and the decoded images of a ShapeRenderer.
rendererVars == <<renderProps, decoded, pattern>>

auxVars == <<uploadVars, publishVars, store, generatorVars, transformerVars, rendererVars>>

(***************************************************************************)
(* Bounds of the model                                                     *)
(***************************************************************************)
MaxElems == 2
MaxId == 2
MaxDim == 400
MaxPos == 560
MaxGestures == 3
MaxSavedLen == 1
MaxSlug == 2
MaxToasts == 3
MaxUploads == 3
MaxDrags == 3
MaxDen == 1
MaxStrokes == 2
MaxReads == 2

(***************************************************************************)
(* Program constants                                                       *)
(***************************************************************************)
MinSize == 20
MinRadius == 10
MinTextWidth == 50
FallbackSize == 100
FallbackRadius == 50
FallbackTextWidth == 200
DefaultCanvas == 1080
DuplicateOffset == 20
SliderRadiusMin == 10
SliderRadiusMax == 400
SliderTextWidthMin == 50
SliderTextWidthMax == 700

ScaleDen == 4
Undef == 0 - 9999
UndefStr == "undefined"
NoId == 0
NullImg == "null"
NoSlug == 0
Unmounted == 0 - 1
NullError == "null"
MinBox == 20

IdSpace == 1..MaxId
ScaleNums == {0 - 4, 0, 2, 5, 8}
NumberInputs == {0, 5, 100}
RadiusInputs == {4, 60}
TextWidthInputs == {10, 120}
BgColors == {"#ffffff", "#000000"}
BgFiles == {[src |-> "imgA", width |-> 800, height |-> 600]}
UploadFiles == BgFiles \cup {[src |-> "imgB", width |-> 600, height |-> 800]}
SlugSpace == 1..MaxSlug
PlaceholderImages == {"imgP"}
UserImages == {"photo"}
ProposedWidths == {10, 20, 100, 201, 300}
ProposedHeights == {10, 20, 100, 200}
StrokeColors == {"#000000", "#ef4444"}
Photos == UploadFiles \cup {[src |-> "imgS", width |-> 500, height |-> 500]}
StrokeWidths == {0, 2, 7}

(***************************************************************************)
(* Arithmetic of the source                                                *)
(***************************************************************************)
Max(a, b) == IF a >= b THEN a ELSE b

Min(a, b) == IF a <= b THEN a ELSE b

\* Math.round(num / den) for den > 0: the nearest integer, halves go up.
Round(num, den) == (2 * num + den) \div (2 * den)

\* JavaScript  v || d  on a number that may be undefined.
OrElse(v, d) == IF v = Undef \/ v = 0 THEN d ELSE v

\* An <input type="range" min max step=1> reports a value inside its range.
RangeValue(v, lo, hi) == IF hi < lo THEN lo ELSE Max(lo, Min(v, hi))

(***************************************************************************)
(* Elements                                                                *)
(***************************************************************************)
BaseProps(id) ==
    [id |-> id, x |-> canvasSize.width \div 2, y |-> canvasSize.height \div 2,
     rotation |-> 0, isPlaceholder |-> FALSE]

Element(base, type, width, height, cornerRadius, radius, sides, fontSize, fill) ==
    [id |-> base.id, type |-> type, x |-> base.x, y |-> base.y,
     rotation |-> base.rotation, isPlaceholder |-> base.isPlaceholder,
     width |-> width, height |-> height, cornerRadius |-> cornerRadius,
     radius |-> radius, sides |-> sides, fontSize |-> fontSize, fill |-> fill,
     placeholderImage |-> UndefStr, strokes |-> <<>>,
     text |-> IF type = "text" THEN "Your Text Here" ELSE UndefStr]

NewElement(type, id) ==
    CASE type = "rect" ->
           Element(BaseProps(id), "rect", 200, 200, 0, Undef, Undef, Undef, "#e5e7eb")
      [] type = "circle" ->
           Element(BaseProps(id), "circle", Undef, Undef, Undef, 100, Undef, Undef, "#e5e7eb")
      [] type = "polygon" ->
           Element(BaseProps(id), "polygon", Undef, Undef, Undef, 100, 6, Undef, "#e5e7eb")
      [] type = "text" ->
           Element(BaseProps(id), "text", 300, Undef, Undef, Undef, Undef, 48, "#1f2937")

AddTypes == {"rect", "circle", "polygon", "text"}

ShapeTypes == {"rect", "circle", "polygon", "text", "image"}

Shapes == {"rect", "circle", "polygon"}

Ids(els) == {els[i].id : i \in 1..Len(els)}

\* Array.prototype.findIndex: the first index whose element has the id, 0 if none.
FindIndex(els, id) ==
    IF \E i \in 1..Len(els) : els[i].id = id
    THEN CHOOSE i \in 1..Len(els) :
            els[i].id = id /\ \A j \in 1..(i - 1) : els[j].id # id
    ELSE 0

\* { ...el, ...updates }
Merge(el, updates) ==
    [f \in DOMAIN el |-> IF f \in DOMAIN updates THEN updates[f] ELSE el[f]]

UpdateAll(els, id, updates) ==
    [i \in 1..Len(els) |-> IF els[i].id = id THEN Merge(els[i], updates) ELSE els[i]]

RECURSIVE Filter(_, _)
Filter(els, id) ==
    IF els = <<>> THEN <<>>
    ELSE IF Head(els).id = id THEN Filter(Tail(els), id)
         ELSE <<Head(els)>> \o Filter(Tail(els), id)

Op(name, id, arg) == [op |-> name, id |-> id, arg |-> arg]

Idle == phase = "idle"

\* No background upload is being read or decoded.
InitUpload ==
    /\ uploads = {}
    /\ issued = <<>>

\* useState(false), useState(null) of the Editor; no publish request under way.
InitPublish ==
    /\ isPublishing = FALSE
    /\ publishedUrl = NoSlug
    /\ toasts = <<>>
    /\ request = <<>>

\* The Generator page before its route is entered.  userImages[id] and
\* imageToCrop hold <<>> for no image or <<photo>>; reads are the FileReader
\* loads under way; fileDialog tells whether the browser's file picker is open.
InitGenerator ==
    /\ generator = [slug |-> Unmounted, template |-> <<>>, elements |-> <<>>,
                    isLoading |-> TRUE, error |-> NullError,
                    userImages |-> [id \in IdSpace |-> <<>>],
                    imageToCrop |-> <<>>, currentCroppingId |-> NoId,
                    fileDialog |-> FALSE, reads |-> {}]
    /\ fetches = {}

Abs(a) == IF a < 0 THEN 0 - a ELSE a

RECURSIVE GCD(_, _)
GCD(a, b) == IF b = 0 THEN a ELSE GCD(b, a % b)

\* A JavaScript number that need not be an integer: the fraction n / d in
\* lowest terms, d > 0.
Rational(n, d) == [n |-> n \div GCD(Abs(n), d), d |-> d \div GCD(Abs(n), d)]

Less(a, b) == a.n * b.d < b.n * a.d

Box(width, height) == [width |-> Rational(width, 1), height |-> Rational(height, 1)]

Times(a, b) == Rational(a.n * b.n, a.d * b.d)

Minus(a, b) == Rational(a.n * b.d - b.n * a.d, a.d * b.d)

\* a / b for b > 0.
Over(a, b) == Rational(a.n * b.d, a.d * b.n)

RMax(a, b) == IF Less(a, b) THEN b ELSE a

\* A shape drawn with its solid fill: no fillPatternImage.
NoPattern == [image |-> UndefStr]

\* The Transformer with no node attached.
InitTransformer ==
    /\ lockAspectRatio = FALSE
    /\ box = Box(0, 0)
    /\ drags = 0
    /\ nodes = <<>>

\* No ShapeRenderer input beyond the element itself.
InitRenderer ==
    /\ renderProps = [userImage |-> UndefStr, isGeneratorMode |-> FALSE]
    /\ decoded = {}
    /\ pattern = NoPattern

Init ==
    /\ elements = <<>>
    /\ selectedId = NoId
    /\ canvasSize = [width |-> DefaultCanvas, height |-> DefaultCanvas]
    /\ backgroundColor = "#ffffff"
    /\ backgroundImage = NullImg
    /\ nodeScale = [x |-> ScaleDen, y |-> ScaleDen]
    /\ phase = "idle"
    /\ gestures = 0
    /\ saved = <<>>
    /\ usedIds = {}
    /\ lastOp = Op("init", NoId, 0)
    /\ InitUpload /\ InitPublish /\ store = {} /\ InitGenerator
    /\ InitTransformer /\ InitRenderer

addElement(type, id) ==
    /\ Idle
    /\ Len(elements) < MaxElems
    /\ IF type \in AddTypes
       THEN /\ elements' = Append(elements, NewElement(type, id))
            /\ selectedId' = id
            /\ lastOp' = Op("addElement", id, 0)
       ELSE \* default: return
            /\ UNCHANGED <<elements, selectedId>>
            /\ lastOp' = Op("addElement", NoId, 0)
    /\ UNCHANGED <<canvasSize, backgroundColor, backgroundImage, nodeScale, phase, gestures, saved>>
    /\ usedIds' = usedIds \cup Ids(elements')
    /\ UNCHANGED auxVars

duplicateElement(id, newId) ==
    /\ Idle
    /\ Len(elements) < MaxElems
    /\ FindIndex(elements, id) # 0
    /\ LET element == elements[FindIndex(elements, id)]
           newElement == [element EXCEPT !.id = newId,
                                         !.x = element.x + DuplicateOffset,
                                         !.y = element.y + DuplicateOffset]
       IN  /\ newElement.x <= MaxPos
           /\ elements' = Append(elements, newElement)
    /\ selectedId' = newId
    /\ lastOp' = Op("duplicateElement", newId, 0)
    /\ UNCHANGED <<canvasSize, backgroundColor, backgroundImage, nodeScale, phase, gestures, saved>>
    /\ usedIds' = usedIds \cup Ids(elements')
    /\ UNCHANGED auxVars

\* Deletion that forgets the selection.
deleteElementKeepSelection(id) ==
    /\ Idle
    /\ elements' = Filter(elements, id)
    /\ lastOp' = Op("deleteElement", id, IF selectedId = id THEN 1 ELSE 0)
    /\ UNCHANGED <<selectedId, canvasSize, backgroundColor, backgroundImage, nodeScale,
                   phase, gestures, saved, usedIds>>
    /\ UNCHANGED auxVars

deleteElement(id) ==
    /\ Idle
    /\ elements' = Filter(elements, id)
    /\ selectedId' = IF selectedId = id THEN NoId ELSE selectedId
    /\ lastOp' = Op("deleteElement", id, IF selectedId = id THEN 1 ELSE 0)
    /\ UNCHANGED <<canvasSize, backgroundColor, backgroundImage, nodeScale, phase, gestures, saved, usedIds>>
    /\ UNCHANGED auxVars

\* The updater that moveElement hands to setElements.
Moved(prev, id, direction) ==
    LET index == FindIndex(prev, id)
        targetIndex == IF direction = "up" THEN index + 1 ELSE index - 1
    IN  IF index = 0 THEN prev
        ELSE IF targetIndex < 1 \/ targetIndex > Len(prev) THEN prev
        ELSE [prev EXCEPT ![index] = prev[targetIndex], ![targetIndex] = prev[index]]

moveElement(id, direction) ==
    /\ Idle
    /\ elements' = Moved(elements, id, direction)
    /\ lastOp' = Op("moveElement", id, 0)
    /\ UNCHANGED <<selectedId, canvasSize, backgroundColor, backgroundImage,
                   nodeScale, phase, gestures, saved, usedIds>>
    /\ UNCHANGED auxVars

setSelectedId(id) ==
    /\ Idle
    /\ selectedId' = id
    /\ lastOp' = Op("setSelectedId", id, 0)
    /\ UNCHANGED <<elements, canvasSize, backgroundColor, backgroundImage,
                   nodeScale, phase, gestures, saved, usedIds>>
    /\ UNCHANGED auxVars

clearSelection ==
    /\ Idle
    /\ selectedId' = NoId
    /\ lastOp' = Op("clearSelection", NoId, 0)
    /\ UNCHANGED <<elements, canvasSize, backgroundColor, backgroundImage,
                   nodeScale, phase, gestures, saved, usedIds>>
    /\ UNCHANGED auxVars

updateElement(id, updates) ==
    /\ elements' = UpdateAll(elements, id, updates)
    /\ UNCHANGED <<selectedId, canvasSize, backgroundColor, backgroundImage, saved, usedIds>>

getSelectedElement == elements[FindIndex(elements, selectedId)]

HasSelectedElement == selectedId # NoId /\ FindIndex(elements, selectedId) # 0

(***************************************************************************)
(* PropertiesPanel: the size controls of the selected element              *)
(***************************************************************************)
PanelWidth(v) ==
    /\ Idle /\ HasSelectedElement
    /\ getSelectedElement.type = "rect"
    /\ updateElement(selectedId, [width |-> v])
    /\ lastOp' = Op("panelWidth", selectedId, v)
    /\ UNCHANGED <<nodeScale, phase, gestures>>
    /\ UNCHANGED auxVars

PanelHeight(v) ==
    /\ Idle /\ HasSelectedElement
    /\ getSelectedElement.type = "rect"
    /\ updateElement(selectedId, [height |-> v])
    /\ lastOp' = Op("panelHeight", selectedId, v)
    /\ UNCHANGED <<nodeScale, phase, gestures>>
    /\ UNCHANGED auxVars

\* The slider's max is Math.min(width, height) / 2, its step is 1.
CornerRadiusMax(el) == Min(el.width, el.height) \div 2

PanelCornerRadius(atMax) ==
    /\ Idle /\ HasSelectedElement
    /\ getSelectedElement.type = "rect"
    /\ LET v == RangeValue(IF atMax THEN CornerRadiusMax(getSelectedElement) ELSE 0,
                           0, CornerRadiusMax(getSelectedElement))
       IN  /\ updateElement(selectedId, [cornerRadius |-> v])
           /\ lastOp' = Op("panelCornerRadius", selectedId, v)
    /\ UNCHANGED <<nodeScale, phase, gestures>>
    /\ UNCHANGED auxVars

PanelRadius(v) ==
    /\ Idle /\ HasSelectedElement
    /\ getSelectedElement.type \in {"circle", "polygon"}
    /\ LET r == RangeValue(v, SliderRadiusMin, SliderRadiusMax)
       IN  /\ updateElement(selectedId, [radius |-> r])
           /\ lastOp' = Op("panelRadius", selectedId, r)
    /\ UNCHANGED <<nodeScale, phase, gestures>>
    /\ UNCHANGED auxVars

\* The Max Width slider of a text element.
PanelMaxWidth(v) ==
    /\ Idle /\ HasSelectedElement
    /\ getSelectedElement.type = "text"
    /\ LET w == RangeValue(v, SliderTextWidthMin, SliderTextWidthMax)
       IN  /\ updateElement(selectedId, [width |-> w])
           /\ lastOp' = Op("panelMaxWidth", selectedId, w)
    /\ UNCHANGED <<nodeScale, phase, gestures>>
    /\ UNCHANGED auxVars

(***************************************************************************)
(* ShapeRenderer: the box handed to the Transformer                        *)
(***************************************************************************)
getBoundingBox(element) ==
    CASE element.type = "rect" ->
           [width |-> element.width, height |-> element.height]
      [] element.type \in {"circle", "polygon"} ->
           [width |-> OrElse(element.radius, 0) * 2, height |-> OrElse(element.radius, 0) * 2]
      [] OTHER -> [width |-> 100, height |-> 100]

(***************************************************************************)
(* CanvasStage: a resize gesture and its reconciliation                    *)
(***************************************************************************)
\* A text width that the gesture leaves as it was.
ScaledWidthUnscaled(el, sx) ==
    IF el.type = "text" THEN OrElse(el.width, FallbackTextWidth)
    ELSE Round(OrElse(el.width, FallbackSize) * sx, ScaleDen)

ScaledWidth(el, sx) ==
    IF el.type = "text" THEN Round(OrElse(el.width, FallbackTextWidth) * sx, ScaleDen)
    ELSE Round(OrElse(el.width, FallbackSize) * sx, ScaleDen)

ScaledHeight(el, sy) == Round(OrElse(el.height, FallbackSize) * sy, ScaleDen)

\* Radius scaled by the horizontal factor alone, not by the average.
ScaledRadiusByX(el, sx, sy) == Round(OrElse(el.radius, FallbackRadius) * sx, ScaleDen)

ScaledRadius(el, sx, sy) == Round(OrElse(el.radius, FallbackRadius) * (sx + sy), 2 * ScaleDen)

\* The Transformer scales the attached node while a handle is dragged.
Transform(sx, sy) ==
    /\ Idle /\ HasSelectedElement
    /\ gestures < MaxGestures
    /\ gestures' = gestures + 1
    /\ LET el == getSelectedElement
       IN  /\ el.type \in {"rect", "image", "text"} => ScaledWidth(el, sx) <= MaxDim
           /\ el.type \in {"rect", "image"} => ScaledHeight(el, sy) <= MaxDim
           /\ el.type \in {"circle", "polygon"} => ScaledRadius(el, sx, sy) <= MaxDim
    /\ nodeScale' = [x |-> sx, y |-> sy]
    /\ phase' = "transforming"
    /\ lastOp' = Op("transform", selectedId, 0)
    /\ UNCHANGED <<elements, selectedId, canvasSize, backgroundColor, backgroundImage, saved, usedIds>>
    /\ UNCHANGED auxVars

\* Reconciliation without the minimum-size clamp.
TransformUpdatesNoMin(element, scaleX, scaleY) ==
    LET base == [x |-> element.x, y |-> element.y, rotation |-> element.rotation]
    IN  IF element.type \in {"rect", "image"}
        THEN [x |-> base.x, y |-> base.y, rotation |-> base.rotation,
              width |-> ScaledWidth(element, scaleX),
              height |-> ScaledHeight(element, scaleY)]
        ELSE IF element.type \in {"circle", "polygon"}
        THEN [x |-> base.x, y |-> base.y, rotation |-> base.rotation,
              radius |-> ScaledRadius(element, scaleX, scaleY)]
        ELSE IF element.type = "text"
        THEN [x |-> base.x, y |-> base.y, rotation |-> base.rotation,
              width |-> ScaledWidth(element, scaleX)]
        ELSE base

TransformUpdates(element, scaleX, scaleY) ==
    LET base == [x |-> element.x, y |-> element.y, rotation |-> element.rotation]
    IN  IF element.type \in {"rect", "image"}
        THEN [x |-> base.x, y |-> base.y, rotation |-> base.rotation,
              width |-> Max(MinSize, ScaledWidth(element, scaleX)),
              height |-> Max(MinSize, ScaledHeight(element, scaleY))]
        ELSE IF element.type \in {"circle", "polygon"}
        THEN [x |-> base.x, y |-> base.y, rotation |-> base.rotation,
              radius |-> Max(MinRadius, ScaledRadius(element, scaleX, scaleY))]
        ELSE IF element.type = "text"
        THEN [x |-> base.x, y |-> base.y, rotation |-> base.rotation,
              width |-> Max(MinTextWidth, ScaledWidth(element, scaleX))]
        ELSE base

handleTransformEnd ==
    /\ phase = "transforming"
    /\ LET elementId == selectedId
           index == FindIndex(elements, elementId)
       IN  IF index = 0
           THEN UNCHANGED <<elements, nodeScale>>
           ELSE /\ updateElement(elementId,
                        TransformUpdates(elements[index], nodeScale.x, nodeScale.y))
                /\ nodeScale' = [x |-> ScaleDen, y |-> ScaleDen]
    /\ phase' = "idle"
    /\ lastOp' = Op("handleTransformEnd", selectedId, 0)
    /\ UNCHANGED <<selectedId, canvasSize, backgroundColor, backgroundImage, gestures, saved, usedIds>>
    /\ UNCHANGED auxVars

(***************************************************************************)
(* CanvasStage: the Transformer and its boundBoxFunc                       *)
(***************************************************************************)
\* What the effect leaves in the Transformer: the transformer-target of the
\* node found under the selected id with its box and ratio lock, or nothing.
\* A node is named by the id of the element whose Group holds it.
TransformerTarget ==
    IF HasSelectedElement
    THEN LET element == getSelectedElement
             bbox == getBoundingBox(element)
         IN  [nodes |-> <<selectedId>>,
              lockAspectRatio |-> element.type \in {"circle", "polygon"},
              box |-> Box(bbox.width, bbox.height)]
    ELSE [nodes |-> <<>>, lockAspectRatio |-> FALSE, box |-> Box(0, 0)]

\* The effect has run for the present selection and elements.  In generator
\* mode no Transformer is rendered and the effect does nothing.
TransformerSettled ==
    \/ renderProps.isGeneratorMode
    \/ drags > 0
    \/ /\ nodes = TransformerTarget.nodes
       /\ lockAspectRatio = TransformerTarget.lockAspectRatio
       /\ box = TransformerTarget.box

\* The effect that only ever attaches: the else branch is missing.
attachTransformerNoDetach ==
    /\ Idle /\ HasSelectedElement
    /\ ~TransformerSettled
    /\ nodes' = TransformerTarget.nodes
    /\ lockAspectRatio' = TransformerTarget.lockAspectRatio
    /\ box' = TransformerTarget.box
    /\ lastOp' = Op("attachTransformer", selectedId, 0)
    /\ UNCHANGED drags
    /\ UNCHANGED <<editorVars, uploadVars, publishVars, store, generatorVars, rendererVars>>

\* The effect on [selectedId, isGeneratorMode, stageRef, elements]: the
\* Transformer takes the selected element's transformer-target and locks the
\* aspect ratio for circles and polygons, or drops its nodes when nothing is
\* selected.
attachTransformer ==
    /\ Idle
    /\ ~TransformerSettled
    /\ nodes' = TransformerTarget.nodes
    /\ lockAspectRatio' = TransformerTarget.lockAspectRatio
    /\ box' = TransformerTarget.box
    /\ lastOp' = Op("attachTransformer", selectedId, 0)
    /\ UNCHANGED drags
    /\ UNCHANGED <<editorVars, uploadVars, publishVars, store, generatorVars, rendererVars>>

boundBoxFunc(oldBox, newBox) ==
    IF Less(newBox.width, Rational(MinBox, 1)) \/ Less(newBox.height, Rational(MinBox, 1))
    THEN oldBox
    ELSE IF lockAspectRatio
    THEN LET aspectRatio == Rational(oldBox.width.n * oldBox.height.d,
                                     oldBox.width.d * oldBox.height.n)
             newAspectRatio == Rational(newBox.width.n * newBox.height.d,
                                        newBox.width.d * newBox.height.n)
             \* Math.abs(newAspectRatio - aspectRatio) > 0.01
             deviates == 100 * Abs(newAspectRatio.n * aspectRatio.d
                                     - aspectRatio.n * newAspectRatio.d)
                            > newAspectRatio.d * aspectRatio.d
             widthChange == Rational(Abs(newBox.width.n * oldBox.width.d
                                           - oldBox.width.n * newBox.width.d),
                                     newBox.width.d * oldBox.width.d)
             heightChange == Rational(Abs(newBox.height.n * oldBox.height.d
                                            - oldBox.height.n * newBox.height.d),
                                      newBox.height.d * oldBox.height.d)
         IN  IF ~deviates THEN newBox
             ELSE IF Less(heightChange, widthChange)
             THEN [newBox EXCEPT !.height = Rational(newBox.width.n * aspectRatio.d,
                                                     newBox.width.d * aspectRatio.n)]
             ELSE [newBox EXCEPT !.width = Rational(newBox.height.n * aspectRatio.n,
                                                    newBox.height.d * aspectRatio.d)]
    ELSE newBox

\* One move of an anchor: the Transformer proposes newBox and takes the box
\* boundBoxFunc returns.
dragAnchor(newBox) ==
    /\ Idle /\ HasSelectedElement
    /\ box # Box(0, 0)
    /\ drags < MaxDrags
    /\ box.width.d <= MaxDen /\ box.height.d <= MaxDen
    /\ box' = boundBoxFunc(box, newBox)
    /\ drags' = drags + 1
    /\ lastOp' = Op("boundBoxFunc", selectedId, 0)
    /\ UNCHANGED <<lockAspectRatio, nodes>>
    /\ UNCHANGED <<editorVars, uploadVars, publishVars, store, generatorVars, rendererVars>>

(***************************************************************************)
(* Background                                                              *)
(***************************************************************************)
setBackgroundColor(c) ==
    /\ Idle
    /\ backgroundColor' = c
    /\ lastOp' = Op("setBackgroundColor", NoId, 0)
    /\ UNCHANGED <<elements, selectedId, canvasSize, backgroundImage, nodeScale, phase, gestures, saved, usedIds>>
    /\ UNCHANGED auxVars

removeBackgroundImage ==
    /\ Idle
    /\ backgroundImage # NullImg
    /\ backgroundImage' = NullImg
    /\ lastOp' = Op("removeBackgroundImage", NoId, 0)
    /\ UNCHANGED <<elements, selectedId, canvasSize, backgroundColor, nodeScale, phase, gestures, saved, usedIds>>
    /\ UNCHANGED auxVars

\* handleBgUpload run to its img.onload with no other upload in flight: the
\* decoded file becomes background and artboard size.
handleBgUpload(file) ==
    /\ Idle
    /\ canvasSize' = [width |-> file.width, height |-> file.height]
    /\ backgroundImage' = file.src
    /\ lastOp' = Op("handleBgUpload", NoId, 0)
    /\ UNCHANGED <<elements, selectedId, backgroundColor, nodeScale, phase, gestures, saved, usedIds>>
    /\ UNCHANGED auxVars

\* handleBgUpload up to reader.readAsDataURL(file): the n-th upload is issued.
startBgUpload(file) ==
    /\ Idle
    /\ Len(issued) < MaxUploads
    /\ uploads' = uploads \cup {[file |-> file, n |-> Len(issued) + 1, stage |-> "reading"]}
    /\ issued' = Append(issued, file)
    /\ lastOp' = Op("startBgUpload", NoId, Len(issued) + 1)
    /\ UNCHANGED <<editorVars, publishVars, store, generatorVars, transformerVars, rendererVars>>

\* reader.onload: the data URL is handed to a new Image to decode.
readerOnload(u) ==
    /\ u \in uploads
    /\ u.stage = "reading"
    /\ uploads' = (uploads \ {u}) \cup {[u EXCEPT !.stage = "decoding"]}
    /\ lastOp' = Op("readerOnload", NoId, u.n)
    /\ UNCHANGED <<editorVars, issued, publishVars, store, generatorVars,
                   transformerVars, rendererVars>>

\* img.onload: setCanvasSize and setBackgroundImage with the decoded upload.
imgOnload(u) ==
    /\ u \in uploads
    /\ u.stage = "decoding"
    /\ uploads' = uploads \ {u}
    /\ canvasSize' = [width |-> u.file.width, height |-> u.file.height]
    /\ backgroundImage' = u.file.src
    /\ lastOp' = Op("imgOnload", NoId, u.n)
    /\ UNCHANGED <<elements, selectedId, backgroundColor, nodeScale, phase, gestures,
                   saved, usedIds>>
    /\ UNCHANGED <<issued, publishVars, store, generatorVars, transformerVars, rendererVars>>

(***************************************************************************)
(* Template export / import                                                *)
(***************************************************************************)
Template(els, w, h, color, image) ==
    [name |-> "Untitled Template", width |-> w, height |-> h, elements |-> els,
     backgroundColor |-> color, backgroundImage |-> image]

ExportedTemplate ==
    Template(elements, canvasSize.width, canvasSize.height, backgroundColor, backgroundImage)

SampleElement(id, type, width, height) ==
    [id |-> id, type |-> type, x |-> 540, y |-> 540, rotation |-> 0,
     isPlaceholder |-> FALSE, width |-> width, height |-> height,
     cornerRadius |-> Undef, radius |-> Undef, sides |-> Undef,
     fontSize |-> Undef, fill |-> "#e5e7eb", placeholderImage |-> UndefStr,
     strokes |-> <<>>, text |-> UndefStr]

\* 1: a complete template holding an image element; 2: a template without
\* background fields; 3: a template whose element is of no known variant.
SampleTemplates ==
    <<Template(<<SampleElement(1, "image", 200, 200)>>, 1080, 1080, "#ffffff", NullImg),
      Template(<<SampleElement(2, "rect", 200, 200)>>, 1080, 1080, UndefStr, UndefStr),
      Template(<<SampleElement(1, "star", 200, 200)>>, 1080, 1080, "#ffffff", NullImg)>>

exportTemplate ==
    /\ Idle
    /\ Len(elements) <= MaxSavedLen
    /\ saved' = <<ExportedTemplate>>
    /\ lastOp' = Op("exportTemplate", NoId, 0)
    /\ UNCHANGED <<elements, selectedId, canvasSize, backgroundColor, backgroundImage,
                   nodeScale, phase, gestures, usedIds>>
    /\ UNCHANGED auxVars

importTemplate(template, arg) ==
    /\ Idle
    /\ elements' = template.elements
    /\ backgroundColor' = IF template.backgroundColor \notin {UndefStr, ""}
                          THEN template.backgroundColor ELSE backgroundColor
    /\ backgroundImage' = IF template.backgroundImage # UndefStr
                          THEN template.backgroundImage ELSE backgroundImage
    /\ selectedId' = NoId
    /\ lastOp' = Op("importTemplate", NoId, arg)
    /\ UNCHANGED <<canvasSize, nodeScale, phase, gestures, saved>>
    /\ usedIds' = usedIds \cup Ids(elements')
    /\ UNCHANGED auxVars

(***************************************************************************)
(* Publishing: handlePublish of the Editor, publishTemplate and the        *)
(* templates table with its UNIQUE slug column                             *)
(***************************************************************************)
Row(slug, template) ==
    [slug |-> slug, name |-> template.name, elements |-> template.elements,
     background_color |-> template.backgroundColor,
     background_image |-> IF template.backgroundImage \in {UndefStr, ""}
                          THEN NullImg ELSE template.backgroundImage,
     canvas_width |-> template.width, canvas_height |-> template.height]

Slugs(rows) == {r.slug : r \in rows}

\* An insert that replaces the stored row of the same slug.
insertOverwrite(rows, row) ==
    [error |-> FALSE, rows |-> {r \in rows : r.slug # row.slug} \cup {row}]

\* INSERT INTO templates: rejected when the slug is already stored.
insert(rows, row) ==
    IF row.slug \in Slugs(rows)
    THEN [error |-> TRUE, rows |-> rows]
    ELSE [error |-> FALSE, rows |-> rows \cup {row}]

\* The click on Publish that calls the store even for an empty canvas.
handlePublishNoGuard(slug) ==
    /\ Idle
    /\ ~isPublishing
    /\ Len(toasts) < MaxToasts
    /\ isPublishing' = TRUE
    /\ request' = <<Row(slug, ExportedTemplate)>>
    /\ lastOp' = Op("handlePublish", NoId, 1)
    /\ UNCHANGED <<toasts, publishedUrl, store>>
    /\ UNCHANGED <<editorVars, uploadVars, generatorVars, transformerVars, rendererVars>>

\* handlePublish up to its await: the guard, setIsPublishing(true),
\* exportTemplate() and the call of publishTemplate with a generated slug.
handlePublish(slug) ==
    /\ Idle
    /\ ~isPublishing
    /\ Len(toasts) < MaxToasts
    /\ IF Len(elements) = 0
       THEN /\ toasts' = Append(toasts, "Canvas is empty.")
            /\ lastOp' = Op("handlePublish", NoId, 0)
            /\ UNCHANGED <<isPublishing, request>>
       ELSE /\ isPublishing' = TRUE
            /\ request' = <<Row(slug, ExportedTemplate)>>
            /\ lastOp' = Op("handlePublish", NoId, 1)
            /\ UNCHANGED toasts
    /\ UNCHANGED <<publishedUrl, store>>
    /\ UNCHANGED <<editorVars, uploadVars, generatorVars, transformerVars, rendererVars>>

\* The insert answers: publishTemplate returns { slug }, or null when the
\* insert reports an error (a slug already stored, or a failure of the call).
publishTemplateReturned(failure) ==
    /\ request # <<>>
    /\ LET answer == IF failure THEN [error |-> TRUE, rows |-> store]
                     ELSE insert(store, request[1])
       IN  /\ store' = answer.rows
           /\ IF answer.error
              THEN /\ UNCHANGED <<publishedUrl, toasts>>
                   /\ lastOp' = Op("publishTemplateReturned", NoId, IF failure THEN 3 ELSE 2)
              ELSE /\ publishedUrl' = request[1].slug
                   /\ toasts' = Append(toasts, "Campaign published!")
                   /\ lastOp' = Op("publishTemplateReturned", NoId, 1)
    /\ isPublishing' = FALSE
    /\ request' = <<>>
    /\ UNCHANGED <<editorVars, uploadVars, generatorVars, transformerVars, rendererVars>>

\* The awaited call throws: the catch branch of handlePublish.
publishTemplateThrew ==
    /\ request # <<>>
    /\ toasts' = Append(toasts, "Failed to publish.")
    /\ isPublishing' = FALSE
    /\ request' = <<>>
    /\ lastOp' = Op("publishTemplateThrew", NoId, 4)
    /\ UNCHANGED <<publishedUrl, store>>
    /\ UNCHANGED <<editorVars, uploadVars, generatorVars, transformerVars, rendererVars>>

\* Escape, or Close in the published dialog.
closePublished ==
    /\ publishedUrl # NoSlug
    /\ publishedUrl' = NoSlug
    /\ lastOp' = Op("closePublished", NoId, 0)
    /\ UNCHANGED <<isPublishing, toasts, request, store>>
    /\ UNCHANGED <<editorVars, uploadVars, generatorVars, transformerVars, rendererVars>>

(***************************************************************************)
(* The Generator page: loadTemplate and getTemplateBySlug                  *)
(***************************************************************************)
\* A mapping of the row that takes the width for the height and the height
\* for the width.
getTemplateBySlugSwapped(rows, slug) ==
    IF slug \in Slugs(rows)
    THEN LET data == CHOOSE r \in rows : r.slug = slug
         IN  <<[name |-> data.name, width |-> data.canvas_height,
                height |-> data.canvas_width, elements |-> data.elements,
                backgroundColor |-> data.background_color,
                backgroundImage |-> data.background_image]>>
    ELSE <<>>

\* select('*').eq('slug', slug).single(): <<the template>>, or <<>> for null.
getTemplateBySlug(rows, slug) ==
    IF slug \in Slugs(rows)
    THEN LET data == CHOOSE r \in rows : r.slug = slug
         IN  <<[name |-> data.name, width |-> data.canvas_width,
                height |-> data.canvas_height, elements |-> data.elements,
                backgroundColor |-> data.background_color,
                backgroundImage |-> data.background_image]>>
    ELSE <<>>

\* What the Generator returns from its render.
GeneratorView ==
    IF generator.isLoading THEN "loading"
    ELSE IF generator.error # NullError \/ generator.template = <<>> THEN "error"
    ELSE "template"

\* The effect on [slug]: the route is entered or its slug parameter changes.
\* The slug NoSlug stands for a route without the parameter.
loadTemplate(slug) ==
    /\ generator.slug # slug
    /\ IF slug = NoSlug
       THEN /\ generator' = [generator EXCEPT !.slug = slug,
                                              !.error = "No template specified",
                                              !.isLoading = FALSE]
            /\ UNCHANGED fetches
       ELSE /\ generator' = [generator EXCEPT !.slug = slug]
            /\ fetches' = fetches \cup {slug}
    /\ lastOp' = Op("loadTemplate", slug, 0)
    /\ UNCHANGED <<editorVars, uploadVars, publishVars, store, transformerVars, rendererVars>>

\* A fetch answers and finds no row, yet no error is recorded.
loadTemplateReturnedNoError(slug, failure) ==
    /\ slug \in fetches
    /\ fetches' = fetches \ {slug}
    /\ LET data == IF failure THEN <<>> ELSE getTemplateBySlug(store, slug)
       IN  IF data # <<>>
           THEN /\ generator' = [generator EXCEPT !.template = data,
                                                  !.elements = data[1].elements,
                                                  !.isLoading = FALSE]
                /\ lastOp' = Op("loadTemplateReturned", slug, 1)
           ELSE /\ generator' = [generator EXCEPT !.isLoading = FALSE]
                /\ lastOp' = Op("loadTemplateReturned", slug, IF failure THEN 3 ELSE 2)
    /\ UNCHANGED <<editorVars, uploadVars, publishVars, store, transformerVars, rendererVars>>

\* The awaited getTemplateBySlug answers: the template, or null when the
\* query reports an error or no row carries the slug.
loadTemplateReturned(slug, failure) ==
    /\ slug \in fetches
    /\ fetches' = fetches \ {slug}
    /\ LET data == IF failure THEN <<>> ELSE getTemplateBySlug(store, slug)
       IN  IF data # <<>>
           THEN /\ generator' = [generator EXCEPT !.template = data,
                                                  !.elements = data[1].elements,
                                                  !.isLoading = FALSE]
                /\ lastOp' = Op("loadTemplateReturned", slug, 1)
           ELSE /\ generator' = [generator EXCEPT !.error = "Template not found",
                                                  !.isLoading = FALSE]
                /\ lastOp' = Op("loadTemplateReturned", slug, IF failure THEN 3 ELSE 2)
    /\ UNCHANGED <<editorVars, uploadVars, publishVars, store, transformerVars, rendererVars>>

\* The awaited call throws: the catch branch of loadTemplate.
loadTemplateThrew(slug) ==
    /\ slug \in fetches
    /\ fetches' = fetches \ {slug}
    /\ generator' = [generator EXCEPT !.error = "Failed to load template",
                                      !.isLoading = FALSE]
    /\ lastOp' = Op("loadTemplateThrew", slug, 4)
    /\ UNCHANGED <<editorVars, uploadVars, publishVars, store, transformerVars, rendererVars>>

(***************************************************************************)
(* ShapeRenderer: what is drawn for one element                            *)
(***************************************************************************)
\* A string that JavaScript takes for true.
Truthy(str) == str \notin {UndefStr, "", NullImg}

\* element.placeholderImage || userImage || ''
imageSrc(element) ==
    IF Truthy(element.placeholderImage) THEN element.placeholderImage
    ELSE IF Truthy(renderProps.userImage) THEN renderProps.userImage
    ELSE ""

\* useImage(imageSrc): the decoded image, undefined until the source has loaded.
image(element) == IF imageSrc(element) \in decoded THEN imageSrc(element) ELSE UndefStr

hasImage(element) ==
    /\ Truthy(image(element))
    /\ (element.isPlaceholder \/ Truthy(renderProps.userImage))

\* The fill of the shape drawn by renderShape.
renderShape(element) ==
    IF element.type \in {"rect", "circle", "polygon"}
    THEN IF hasImage(element) THEN "transparent" ELSE element.fill
    ELSE element.fill

\* renderImage draws the image inside the clip of a rect, circle or polygon.
renderImage(element) ==
    hasImage(element) /\ element.type \in {"rect", "circle", "polygon"}

\* The dashed rectangle and the upload text drawn over the shape.
placeholderIndicator(element) ==
    element.type # "text" /\ element.isPlaceholder /\ ~hasImage(element)

\* The Enable Placeholder checkbox of the properties panel.
PanelPlaceholder(checked) ==
    /\ Idle /\ HasSelectedElement
    /\ ~renderProps.isGeneratorMode
    /\ getSelectedElement.type # "text"
    /\ updateElement(selectedId, [isPlaceholder |-> checked])
    /\ lastOp' = Op("panelPlaceholder", selectedId, IF checked THEN 1 ELSE 0)
    /\ UNCHANGED <<nodeScale, phase, gestures>>
    /\ UNCHANGED auxVars

\* The preview image of a placeholder is uploaded (src) or removed (undefined).
PanelPlaceholderImage(src) ==
    /\ Idle /\ HasSelectedElement
    /\ ~renderProps.isGeneratorMode
    /\ getSelectedElement.type # "text"
    /\ getSelectedElement.isPlaceholder
    /\ Truthy(getSelectedElement.placeholderImage) = (src = UndefStr)
    /\ updateElement(selectedId, [placeholderImage |-> src])
    /\ lastOp' = Op("panelPlaceholderImage", selectedId, 0)
    /\ UNCHANGED <<nodeScale, phase, gestures>>
    /\ UNCHANGED auxVars

\* The userImage prop changes: the visitor's photo is applied.
setUserImage(src) ==
    /\ renderProps.userImage # src
    /\ renderProps' = [renderProps EXCEPT !.userImage = src]
    /\ pattern' = NoPattern
    /\ lastOp' = Op("setUserImage", NoId, 0)
    /\ UNCHANGED <<editorVars, uploadVars, publishVars, store, generatorVars,
                   transformerVars, decoded>>

\* useImage finishes loading the source of an element.
useImage(src) ==
    /\ \E i \in 1..Len(elements) : imageSrc(elements[i]) = src
    /\ src # ""
    /\ src \notin decoded
    /\ decoded' = decoded \cup {src}
    /\ lastOp' = Op("useImage", NoId, 0)
    /\ UNCHANGED <<editorVars, uploadVars, publishVars, store, generatorVars,
                   transformerVars, renderProps, pattern>>

(***************************************************************************)
(* The editor                                                              *)
(***************************************************************************)
\* The element list and the selection of one editing session.
Next ==
    \/ \E type \in AddTypes, id \in IdSpace : addElement(type, id)
    \/ \E newId \in IdSpace : selectedId # NoId /\ duplicateElement(selectedId, newId)
    \/ \E id \in Ids(elements) : deleteElement(id)
    \/ \E direction \in {"up", "down"} : selectedId # NoId /\ moveElement(selectedId, direction)
    \/ \E id \in Ids(elements) : setSelectedId(id)
    \/ clearSelection
    \/ \E v \in RadiusInputs : PanelRadius(v)
    \/ \E k \in DOMAIN SampleTemplates : importTemplate(SampleTemplates[k], k)

Spec == Init /\ [][Next]_vars

\* The geometry of one selected element: a session in which the element was
\* created by addElement, or imported and clicked, and is then resized by
\* gestures and edited through the properties panel.
InitGeometry ==
    /\ canvasSize = [width |-> DefaultCanvas, height |-> DefaultCanvas]
    /\ elements \in {<<NewElement(type, 1)>> : type \in AddTypes}
                    \cup {SampleTemplates[1].elements}
    /\ selectedId = 1
    /\ backgroundColor = "#ffffff"
    /\ backgroundImage = NullImg
    /\ nodeScale = [x |-> ScaleDen, y |-> ScaleDen]
    /\ phase = "idle"
    /\ gestures = 0
    /\ saved = <<>>
    /\ usedIds = Ids(elements)
    /\ lastOp = Op("setSelectedId", 1, 0)
    /\ InitUpload /\ InitPublish /\ store = {} /\ InitGenerator
    /\ InitTransformer /\ InitRenderer

NextGeometry ==
    \/ \E v \in NumberInputs : PanelWidth(v)
    \/ \E v \in NumberInputs : PanelHeight(v)
    \/ \E atMax \in BOOLEAN : PanelCornerRadius(atMax)
    \/ \E v \in RadiusInputs : PanelRadius(v)
    \/ \E v \in TextWidthInputs : PanelMaxWidth(v)
    \/ \E sx \in ScaleNums, sy \in ScaleNums : Transform(sx, sy)
    \/ handleTransformEnd

SpecGeometry == InitGeometry /\ [][NextGeometry]_vars

\* The document as a whole: element list, background, artboard, export and import.
NextTemplate ==
    \/ \E type \in AddTypes, id \in IdSpace : addElement(type, id)
    \/ \E id \in Ids(elements) : deleteElement(id)
    \/ \E c \in BgColors : setBackgroundColor(c)
    \/ removeBackgroundImage
    \/ \E file \in BgFiles : handleBgUpload(file)
    \/ exportTemplate
    \/ saved # <<>> /\ importTemplate(saved[1], 0)
    \/ \E k \in DOMAIN SampleTemplates : importTemplate(SampleTemplates[k], k)

SpecTemplate == Init /\ [][NextTemplate]_vars

\* Publishing: the element list of the session and the templates table.
NextPublish ==
    \/ \E id \in IdSpace : addElement("rect", id)
    \/ \E id \in Ids(elements) : deleteElement(id)
    \/ \E slug \in SlugSpace : handlePublish(slug)
    \/ \E failure \in BOOLEAN : publishTemplateReturned(failure)
    \/ publishTemplateThrew
    \/ closePublished

SpecPublish == Init /\ [][NextPublish]_vars

\* A campaign: an editor session that holds a document publishes it while a
\* visitor's Generator page loads slugs.
InitCampaign ==
    /\ elements = SampleTemplates[1].elements
    /\ selectedId = NoId
    /\ canvasSize = [width |-> DefaultCanvas, height |-> DefaultCanvas]
    /\ backgroundColor = "#ffffff"
    /\ backgroundImage = NullImg
    /\ nodeScale = [x |-> ScaleDen, y |-> ScaleDen]
    /\ phase = "idle"
    /\ gestures = 0
    /\ saved = <<>>
    /\ usedIds = Ids(elements)
    /\ lastOp = Op("importTemplate", NoId, 1)
    /\ InitUpload /\ InitPublish /\ store = {} /\ InitGenerator
    /\ InitTransformer /\ InitRenderer

NextGenerator ==
    \/ \E slug \in SlugSpace : handlePublish(slug)
    \/ \E failure \in BOOLEAN : publishTemplateReturned(failure)
    \/ \E slug \in SlugSpace \cup {NoSlug} : loadTemplate(slug)
    \/ \E slug \in SlugSpace, failure \in BOOLEAN : loadTemplateReturned(slug, failure)
    \/ \E slug \in SlugSpace : loadTemplateThrew(slug)

SpecGenerator == InitCampaign /\ [][NextGenerator]_vars

\* A document whose background and artboard change between publications, and
\* a visitor's page that fetches what was stored.
NextRoundTrip ==
    \/ \E file \in BgFiles : handleBgUpload(file)
    \/ \E c \in BgColors : setBackgroundColor(c)
    \/ \E slug \in SlugSpace : handlePublish(slug)
    \/ publishTemplateReturned(FALSE)
    \/ \E slug \in SlugSpace : loadTemplate(slug)
    \/ \E slug \in SlugSpace : loadTemplateReturned(slug, FALSE)

SpecRoundTrip == InitCampaign /\ [][NextRoundTrip]_vars

\* One element under the ShapeRenderer, in the editor (isGeneratorMode false)
\* or replayed on the generator page (isGeneratorMode true) from a template
\* whose element may be a placeholder with or without a preview image.
InitRender ==
    /\ canvasSize = [width |-> DefaultCanvas, height |-> DefaultCanvas]
    /\ \E type \in AddTypes, isPlaceholder \in BOOLEAN,
          src \in PlaceholderImages \cup {UndefStr} :
          /\ type = "text" => (~isPlaceholder /\ src = UndefStr)
          /\ (~isPlaceholder) => src = UndefStr
          /\ elements = <<[NewElement(type, 1) EXCEPT !.isPlaceholder = isPlaceholder,
                                                      !.placeholderImage = src]>>
    /\ selectedId = 1
    /\ backgroundColor = "#ffffff"
    /\ backgroundImage = NullImg
    /\ nodeScale = [x |-> ScaleDen, y |-> ScaleDen]
    /\ phase = "idle"
    /\ gestures = 0
    /\ saved = <<>>
    /\ usedIds = Ids(elements)
    /\ lastOp = Op("setSelectedId", 1, 0)
    /\ InitUpload /\ InitPublish /\ store = {} /\ InitGenerator /\ InitTransformer
    /\ renderProps \in [userImage : {UndefStr}, isGeneratorMode : BOOLEAN]
    /\ decoded = {}
    /\ pattern = NoPattern

NextRender ==
    \/ \E checked \in BOOLEAN : PanelPlaceholder(checked)
    \/ \E src \in PlaceholderImages \cup {UndefStr} : PanelPlaceholderImage(src)
    \/ \E src \in UserImages \cup {UndefStr} : setUserImage(src)
    \/ \E src \in PlaceholderImages \cup UserImages : useImage(src)

SpecRender == InitRender /\ [][NextRender]_vars

\* The background slot: uploads that overlap in time.
NextUpload ==
    \/ \E file \in UploadFiles : startBgUpload(file)
    \/ \E u \in uploads : readerOnload(u)
    \/ \E u \in uploads : imgOnload(u)
    \/ removeBackgroundImage
    \/ \E c \in BgColors : setBackgroundColor(c)

SpecUpload == Init /\ [][NextUpload]_vars

\* Creation of elements on an artboard whose size a background upload sets.
NextCreate ==
    \/ \E type \in ShapeTypes, id \in IdSpace : addElement(type, id)
    \/ \E id \in Ids(elements) : deleteElement(id)
    \/ \E file \in UploadFiles : handleBgUpload(file)

SpecCreate == Init /\ [][NextCreate]_vars

\* The Transformer attached to one selected element while an anchor is dragged.
InitAttach ==
    /\ canvasSize = [width |-> DefaultCanvas, height |-> DefaultCanvas]
    /\ elements \in {<<NewElement(type, 1)>> : type \in AddTypes}
    /\ selectedId = 1
    /\ backgroundColor = "#ffffff"
    /\ backgroundImage = NullImg
    /\ nodeScale = [x |-> ScaleDen, y |-> ScaleDen]
    /\ phase = "idle"
    /\ gestures = 0
    /\ saved = <<>>
    /\ usedIds = Ids(elements)
    /\ lastOp = Op("addElement", 1, 0)
    /\ InitUpload /\ InitPublish /\ store = {} /\ InitGenerator
    /\ InitTransformer /\ InitRenderer

NextTransformer ==
    \/ attachTransformer
    \/ \E w \in ProposedWidths, h \in ProposedHeights : dragAnchor(Box(w, h))

SpecTransformer == InitAttach /\ [][NextTransformer]_vars

(***************************************************************************)
(* Stroke layers: the underlays drawn behind a shape by the editor's       *)
(* ShapeRenderer and by the Generator's RenderShape.  Coordinates and      *)
(* radii are carried doubled (x2 = 2x) so that s.width / 2 stays exact;    *)
(* positions are canvas coordinates.                                       *)
(***************************************************************************)
StrokeLayer(color, width) == [color |-> color, width |-> width, position |-> "center"]

\* The underlay of one layer: a Rect (x2, y2 its corner, size its width and
\* height), a Circle (x2, y2 its centre, size its doubled radius), a closed
\* Line through the corners of a regular polygon (centre, doubled radius and
\* sides), or null.
Underlay(node, x2, y2, size, sides, rotation, fill) ==
    [node |-> node, x2 |-> x2, y2 |-> y2, size |-> size, sides |-> sides,
     rotation |-> rotation, fill |-> fill]

\* renderStrokes of the ShapeRenderer, inside the Group placed at
\* (element.x, element.y) and turned by element.rotation.
renderStrokes(element) ==
    [i \in 1..Len(element.strokes) |->
        LET s == element.strokes[i]
        IN  CASE element.type = "rect" ->
                   Underlay("Rect", 2 * element.x - element.width - s.width,
                            2 * element.y - element.height - s.width,
                            <<element.width + s.width, element.height + s.width>>,
                            Undef, element.rotation, s.color)
              [] element.type = "circle" ->
                   Underlay("Circle", 2 * element.x, 2 * element.y,
                            2 * OrElse(element.radius, 0) + s.width,
                            Undef, element.rotation, s.color)
              [] element.type = "polygon" ->
                   Underlay("Line", 2 * element.x, 2 * element.y,
                            2 * OrElse(element.radius, 0) + s.width,
                            OrElse(element.sides, 3), element.rotation, s.color)
              [] OTHER -> Underlay("null", Undef, Undef, Undef, Undef, Undef, UndefStr)]

\* The strokes of RenderShape on the Generator page: no Group, no rotation;
\* the polygon underlay runs through the points of the polygon itself.
RenderShape(element) ==
    [i \in 1..Len(element.strokes) |->
        LET s == element.strokes[i]
        IN  CASE element.type = "rect" ->
                   Underlay("Rect", 2 * element.x - element.width - s.width,
                            2 * element.y - element.height - s.width,
                            <<element.width + s.width, element.height + s.width>>,
                            Undef, 0, s.color)
              [] element.type = "circle" ->
                   Underlay("Circle", 2 * element.x, 2 * element.y,
                            2 * element.radius + s.width, Undef, 0, s.color)
              [] element.type = "polygon" ->
                   Underlay("Line", 2 * element.x, 2 * element.y,
                            2 * element.radius, element.sides, 0, s.color)
              [] OTHER -> Underlay("null", Undef, Undef, Undef, Undef, Undef, UndefStr)]

\* The Stroke Color input of the toolbar: one layer, keeping width and position.
ToolbarStrokeColor(color) ==
    /\ Idle /\ HasSelectedElement
    /\ getSelectedElement.type \in {"rect", "circle", "polygon"}
    /\ LET current == getSelectedElement.strokes
           width == IF current = <<>> THEN 2 ELSE OrElse(current[1].width, 2)
       IN  updateElement(selectedId, [strokes |-> <<StrokeLayer(color, width)>>])
    /\ lastOp' = Op("toolbarStrokeColor", selectedId, 0)
    /\ UNCHANGED <<nodeScale, phase, gestures>>
    /\ UNCHANGED auxVars

\* The Stroke Width slider of the toolbar, shown once a layer exists.
ToolbarStrokeWidth(width) ==
    /\ Idle /\ HasSelectedElement
    /\ getSelectedElement.type \in {"rect", "circle", "polygon"}
    /\ getSelectedElement.strokes # <<>>
    /\ LET current == getSelectedElement.strokes
       IN  updateElement(selectedId,
               [strokes |-> [current EXCEPT ![1] = [current[1] EXCEPT !.width = width]]])
    /\ lastOp' = Op("toolbarStrokeWidth", selectedId, width)
    /\ UNCHANGED <<nodeScale, phase, gestures>>
    /\ UNCHANGED auxVars

\* The stroke layers a stored template may carry: up to MaxStrokes of them.
StrokeLists ==
    UNION {[1..n -> {StrokeLayer(c, w) : c \in StrokeColors, w \in StrokeWidths}]
           : n \in 0..MaxStrokes}

\* One shape with stroke layers, drawn by both renderers and restyled through
\* the toolbar.
InitStrokes ==
    /\ canvasSize = [width |-> DefaultCanvas, height |-> DefaultCanvas]
    /\ \E type \in Shapes, strokes \in StrokeLists :
          elements = <<[NewElement(type, 1) EXCEPT !.strokes = strokes]>>
    /\ selectedId = 1
    /\ backgroundColor = "#ffffff"
    /\ backgroundImage = NullImg
    /\ nodeScale = [x |-> ScaleDen, y |-> ScaleDen]
    /\ phase = "idle"
    /\ gestures = 0
    /\ saved = <<>>
    /\ usedIds = Ids(elements)
    /\ lastOp = Op("setSelectedId", 1, 0)
    /\ InitUpload /\ InitPublish /\ store = {} /\ InitGenerator
    /\ InitTransformer /\ InitRenderer

NextStrokes ==
    \/ \E color \in StrokeColors : ToolbarStrokeColor(color)
    \/ \E width \in StrokeWidths : ToolbarStrokeWidth(width)

SpecStrokes == InitStrokes /\ [][NextStrokes]_vars

(***************************************************************************)
(* The Generator page: photo slots, cropping, text lines and download      *)
(***************************************************************************)
placeholderElements == {i \in 1..Len(generator.elements) : generator.elements[i].isPlaceholder}

textElements == {i \in 1..Len(generator.elements) : generator.elements[i].type = "text"}

\* userImage={el.isPlaceholder ? userImages[el.id] : undefined}
UserImageProp(el) == IF el.isPlaceholder THEN generator.userImages[el.id] ELSE <<>>

\* The button stays enabled as soon as one slot holds a photo.
isDownloadDisabledEvery ==
    /\ placeholderElements # {}
    /\ \A i \in placeholderElements : generator.userImages[generator.elements[i].id] = <<>>

isDownloadDisabled ==
    /\ placeholderElements # {}
    /\ \E i \in placeholderElements : generator.userImages[generator.elements[i].id] = <<>>

\* The page shows the template and neither the file picker nor the cropper
\* overlay takes the clicks.
PageInteractive ==
    /\ GeneratorView = "template"
    /\ ~generator.fileDialog
    /\ generator.imageToCrop = <<>>

\* A photo read from a file; target records the slot that was the cropping
\* target when the file was picked.
Photo(file, target) == [file |-> file, target |-> target]

GeneratorFrame ==
    UNCHANGED <<editorVars, uploadVars, publishVars, store, fetches, transformerVars,
                rendererVars>>

updateTextElement(id, text) ==
    /\ PageInteractive
    /\ \E i \in textElements : generator.elements[i].id = id
    /\ generator' = [generator EXCEPT
                       !.elements = UpdateAll(generator.elements, id, [text |-> text])]
    /\ lastOp' = Op("updateTextElement", id, 0)
    /\ GeneratorFrame

\* The click on a photo slot: the slot becomes the cropping target and the
\* file picker opens.
handleUploadClick(id) ==
    /\ PageInteractive
    /\ \E i \in placeholderElements : generator.elements[i].id = id
    /\ generator' = [generator EXCEPT !.currentCroppingId = id, !.fileDialog = TRUE]
    /\ lastOp' = Op("handleUploadClick", id, 0)
    /\ GeneratorFrame

\* The file picker is closed without a file: no change event.
fileDialogDismissed ==
    /\ generator.fileDialog
    /\ generator' = [generator EXCEPT !.fileDialog = FALSE]
    /\ lastOp' = Op("fileDialogDismissed", NoId, 0)
    /\ GeneratorFrame

\* The change event of the file input: a FileReader starts reading the file.
handleImageUpload(file) ==
    /\ generator.fileDialog
    /\ Cardinality(generator.reads) < MaxReads
    /\ generator' =
         [generator EXCEPT
            !.fileDialog = FALSE,
            !.reads = IF generator.currentCroppingId = NoId THEN @
                      ELSE @ \cup {Photo(file, generator.currentCroppingId)}]
    /\ lastOp' = Op("handleImageUpload", generator.currentCroppingId, 0)
    /\ GeneratorFrame

\* reader.onload: the file's data URL becomes the image to crop.
fileReaderOnload(photo) ==
    /\ photo \in generator.reads
    /\ generator' = [generator EXCEPT !.reads = @ \ {photo}, !.imageToCrop = <<photo>>]
    /\ lastOp' = Op("fileReaderOnload", photo.target, 0)
    /\ GeneratorFrame

\* Apply in the cropper: the cropped image is stored under the cropping target.
handleCropComplete ==
    /\ GeneratorView = "template" /\ ~generator.fileDialog
    /\ generator.imageToCrop # <<>>
    /\ IF generator.currentCroppingId = NoId
       THEN UNCHANGED generator
       ELSE generator' =
              [generator EXCEPT
                 !.userImages[generator.currentCroppingId] = generator.imageToCrop,
                 !.imageToCrop = <<>>,
                 !.currentCroppingId = NoId]
    /\ lastOp' = Op("handleCropComplete", generator.currentCroppingId, 0)
    /\ GeneratorFrame

\* Cancel in the cropper: onCancel={() => setImageToCrop(null)}.
cropCancel ==
    /\ GeneratorView = "template" /\ ~generator.fileDialog
    /\ generator.imageToCrop # <<>>
    /\ generator' = [generator EXCEPT !.imageToCrop = <<>>]
    /\ lastOp' = Op("cropCancel", generator.currentCroppingId, 0)
    /\ GeneratorFrame

\* The Download button, disabled while isDownloadDisabled.
handleDownload ==
    /\ PageInteractive
    /\ ~isDownloadDisabled
    /\ lastOp' = Op("handleDownload", NoId, 0)
    /\ UNCHANGED generator
    /\ GeneratorFrame

\* The element lists of stored campaigns: shapes marked as photo slots beside
\* a text line, a text element that carries isPlaceholder, and a list in which
\* a shape and a text share an id.
CampaignElements ==
    LET slot(type, id) == [NewElement(type, id) EXCEPT !.isPlaceholder = TRUE]
    IN  {<<slot("rect", 1), NewElement("text", 2)>>,
         <<slot("rect", 1), slot("circle", 2)>>,
         <<slot("text", 1), slot("rect", 2)>>,
         <<NewElement("rect", 1), NewElement("text", 1)>>}

\* A visitor opens the page of a stored campaign and personalises it.
InitPersonalize ==
    /\ elements = <<>>
    /\ selectedId = NoId
    /\ canvasSize = [width |-> DefaultCanvas, height |-> DefaultCanvas]
    /\ backgroundColor = "#ffffff"
    /\ backgroundImage = NullImg
    /\ nodeScale = [x |-> ScaleDen, y |-> ScaleDen]
    /\ phase = "idle"
    /\ gestures = 0
    /\ saved = <<>>
    /\ usedIds = {}
    /\ lastOp = Op("init", NoId, 0)
    /\ InitUpload /\ InitPublish /\ InitGenerator
    /\ \E els \in CampaignElements :
          store = {Row(1, Template(els, DefaultCanvas, DefaultCanvas, "#ffffff", NullImg))}
    /\ InitTransformer /\ InitRenderer

NextPersonalize ==
    \/ loadTemplate(1)
    \/ \E failure \in BOOLEAN : loadTemplateReturned(1, failure)
    \/ \E id \in IdSpace, text \in {"", "Ada"} : updateTextElement(id, text)
    \/ \E id \in IdSpace : handleUploadClick(id)
    \/ fileDialogDismissed
    \/ \E file \in {"photoA", "photoB"} : handleImageUpload(file)
    \/ \E photo \in generator.reads : fileReaderOnload(photo)
    \/ handleCropComplete
    \/ cropCancel
    \/ handleDownload

SpecPersonalize == InitPersonalize /\ [][NextPersonalize]_vars

(***************************************************************************)
(* Clearing the selection: the clicks and the key that deselect, and the   *)
(* Transformer that follows the selection                                  *)
(***************************************************************************)
SelectionFrame ==
    /\ UNCHANGED <<elements, canvasSize, backgroundColor, backgroundImage,
                   nodeScale, phase, gestures, saved, usedIds>>
    /\ UNCHANGED <<uploadVars, store, generatorVars, transformerVars, rendererVars>>

\* handleStageClick of CanvasStage: a click whose target is the stage itself
\* or the node named 'background' calls onSelect(null).
handleStageClick(target) ==
    /\ Idle
    /\ selectedId' = IF target \in {"stage", "background"} THEN NoId ELSE selectedId
    /\ lastOp' = Op("handleStageClick", NoId, IF target = "element" THEN 0 ELSE 1)
    /\ UNCHANGED publishVars
    /\ SelectionFrame

\* handleMouseDown of the Editor's viewport: the middle button or a held Space
\* starts a pan; otherwise a press on the void area clears the selection.
handleMouseDown(button, isSpacePressed, onVoid) ==
    /\ Idle
    /\ selectedId' = IF button = 1 \/ isSpacePressed THEN selectedId
                     ELSE IF onVoid THEN NoId ELSE selectedId
    /\ lastOp' = Op("handleMouseDown", NoId, button)
    /\ UNCHANGED publishVars
    /\ SelectionFrame

\* handleKeyDown for the Escape key: ignored while an INPUT or TEXTAREA has
\* the focus; otherwise clearSelection(), setIsPreview(false) and
\* setPublishedUrl(null).
handleKeyDown(inputFocused) ==
    /\ Idle
    /\ IF inputFocused
       THEN UNCHANGED <<selectedId, publishedUrl>>
       ELSE selectedId' = NoId /\ publishedUrl' = NoSlug
    /\ lastOp' = Op("handleKeyDown", NoId, IF inputFocused THEN 0 ELSE 1)
    /\ UNCHANGED <<isPublishing, toasts, request>>
    /\ SelectionFrame

\* A stage with two elements, in the editor or in generator mode.
InitSelection ==
    /\ canvasSize = [width |-> DefaultCanvas, height |-> DefaultCanvas]
    /\ \E t1 \in AddTypes, t2 \in AddTypes :
          elements = <<NewElement(t1, 1), NewElement(t2, 2)>>
    /\ selectedId = 2
    /\ backgroundColor = "#ffffff"
    /\ backgroundImage = NullImg
    /\ nodeScale = [x |-> ScaleDen, y |-> ScaleDen]
    /\ phase = "idle"
    /\ gestures = 0
    /\ saved = <<>>
    /\ usedIds = Ids(elements)
    /\ lastOp = Op("addElement", 2, 0)
    /\ InitUpload /\ InitPublish /\ store = {} /\ InitGenerator
    /\ lockAspectRatio = FALSE /\ box = Box(0, 0) /\ drags = 0 /\ nodes = <<>>
    /\ renderProps \in [userImage : {UndefStr}, isGeneratorMode : BOOLEAN]
    /\ decoded = {}
    /\ pattern = NoPattern

\* React runs the effect of a render before the next click or key is handled.
NextSelection ==
    \/ attachTransformer
    \/ TransformerSettled /\ \E id \in Ids(elements) : setSelectedId(id)
    \/ TransformerSettled /\ \E target \in {"stage", "background", "element"} :
                                handleStageClick(target)
    \/ TransformerSettled /\ \E button \in {0, 1}, isSpacePressed \in BOOLEAN,
                                onVoid \in BOOLEAN :
                                handleMouseDown(button, isSpacePressed, onVoid)
    \/ TransformerSettled /\ \E inputFocused \in BOOLEAN : handleKeyDown(inputFocused)
    \/ TransformerSettled /\ selectedId # NoId /\ deleteElement(selectedId)

SpecSelection == InitSelection /\ [][NextSelection]_vars

\* The effect of a committed render always runs.
FairSpecSelection == SpecSelection /\ WF_vars(attachTransformer)

(***************************************************************************)
(* The pattern fill of a photo slot on the Generator page: fillProps of    *)
(* URLImageShape, and the fill of the ShapeRenderer in generator mode      *)
(***************************************************************************)
\* image.width and image.height of a decoded source.
NaturalSize(src) == CHOOSE p \in Photos : p.src = src

\* The box the photo has to fill: the diameter for a circle or a polygon.
ShapeBox(element) ==
    IF element.type \in {"circle", "polygon"}
    THEN [width |-> 2 * element.radius, height |-> 2 * element.radius]
    ELSE [width |-> element.width, height |-> element.height]

PatternFill(src, scaleX, scaleY, offsetX, offsetY) ==
    [image |-> src, fillPatternScaleX |-> scaleX, fillPatternScaleY |-> scaleY,
     fillPatternOffsetX |-> offsetX, fillPatternOffsetY |-> offsetY]

\* fillProps of URLImageShape.
fillProps(element, src) ==
    LET shape == ShapeBox(element)
        img == NaturalSize(src)
        scale == RMax(Rational(shape.width, img.width), Rational(shape.height, img.height))
        offsetX == Over(Minus(Times(Rational(img.width, 1), scale),
                              Rational(shape.width, 1)), Rational(2, 1))
        offsetY == Over(Minus(Times(Rational(img.height, 1), scale),
                              Rational(shape.height, 1)), Rational(2, 1))
    IN  PatternFill(src, scale, scale, Over(offsetX, scale), Over(offsetY, scale))

\* The fill of the ShapeRenderer's rect, circle and polygon cases when
\* shouldUseImage holds.
shouldUseImage(element, src) ==
    LET shape == ShapeBox(element)
        img == NaturalSize(src)
        scaleX == Rational(shape.width, img.width)
        scaleY == Rational(shape.height, img.height)
    IN  PatternFill(src, scaleX, scaleY,
                    Over(Times(Rational(img.width, 1), scaleX), Rational(2, 1)),
                    Over(Times(Rational(img.height, 1), scaleY), Rational(2, 1)))

\* The photo of the slot is decoded and the shape is a placeholder drawn on
\* the Generator page.
PhotoDecoded ==
    /\ renderProps.isGeneratorMode
    /\ Truthy(renderProps.userImage)
    /\ renderProps.userImage \in decoded
    /\ Len(elements) = 1
    /\ elements[1].type \in Shapes /\ elements[1].isPlaceholder

\* The Generator that draws its slots with URLImageShape renders the photo.
URLImageShape ==
    /\ PhotoDecoded
    /\ pattern' = fillProps(elements[1], renderProps.userImage)
    /\ pattern' # pattern
    /\ lastOp' = Op("URLImageShape", elements[1].id, 0)
    /\ UNCHANGED <<editorVars, uploadVars, publishVars, store, generatorVars,
                   transformerVars, renderProps, decoded>>

\* The Generator that draws its slots with the ShapeRenderer renders the photo.
ShapeRenderer ==
    /\ PhotoDecoded
    /\ pattern' = shouldUseImage(elements[1], renderProps.userImage)
    /\ pattern' # pattern
    /\ lastOp' = Op("ShapeRenderer", elements[1].id, 0)
    /\ UNCHANGED <<editorVars, uploadVars, publishVars, store, generatorVars,
                   transformerVars, renderProps, decoded>>

\* One photo slot of a loaded template and the photos a visitor supplies.
InitFit ==
    /\ canvasSize = [width |-> DefaultCanvas, height |-> DefaultCanvas]
    /\ elements \in
         {<<[NewElement("rect", 1) EXCEPT !.isPlaceholder = TRUE,
                                          !.width = size[1], !.height = size[2]]>>
             : size \in {<<200, 200>>, <<300, 150>>, <<100, 400>>}}
         \cup {<<[NewElement(type, 1) EXCEPT !.isPlaceholder = TRUE, !.radius = radius]>>
                 : type \in {"circle", "polygon"}, radius \in {50, 100}}
    /\ selectedId = NoId
    /\ backgroundColor = "#ffffff"
    /\ backgroundImage = NullImg
    /\ nodeScale = [x |-> ScaleDen, y |-> ScaleDen]
    /\ phase = "idle"
    /\ gestures = 0
    /\ saved = <<>>
    /\ usedIds = Ids(elements)
    /\ lastOp = Op("init", NoId, 0)
    /\ InitUpload /\ InitPublish /\ store = {} /\ InitGenerator /\ InitTransformer
    /\ renderProps = [userImage |-> UndefStr, isGeneratorMode |-> TRUE]
    /\ decoded = {}
    /\ pattern = NoPattern

NextFit ==
    \/ \E photo \in Photos : setUserImage(photo.src)
    \/ \E photo \in Photos : useImage(photo.src)
    \/ URLImageShape
    \/ ShapeRenderer

SpecFit == InitFit /\ [][NextFit]_vars

(***************************************************************************)
(* Properties                                                              *)
(***************************************************************************)
TransformEndStep == phase = "transforming" /\ phase' = "idle"

AfterTransformEnd == lastOp.op = "handleTransformEnd"

\* n is Math.round(num / den): the integer with n - 1/2 <= num/den < n + 1/2.
IsRounded(n, num, den) == (2 * n - 1) * den <= 2 * num /\ 2 * num < (2 * n + 1) * den

\* Math.round(num / den) is the floor of num / den or the integer above it.
Nearby(num, den) == {num \div den, num \div den + 1}

\* C1: after a transform-end reconciliation, whatever the scale factors were,
\* the reconciled rect/image has width >= 20 and height >= 20 and the
\* reconciled circle/polygon has radius >= 10.
C1_MinSizeAfterTransformEnd ==
    AfterTransformEnd =>
        \A i \in 1..Len(elements) :
            elements[i].id = lastOp.id =>
                /\ elements[i].type \in {"rect", "image"} =>
                       elements[i].width >= 20 /\ elements[i].height >= 20
                /\ elements[i].type \in {"circle", "polygon"} =>
                       elements[i].radius >= 10

\* A rect was shrunk by a gesture and ended exactly at the minimum size.
C1_Witness ==
    /\ AfterTransformEnd
    /\ \E i \in 1..Len(elements) :
          /\ elements[i].id = lastOp.id
          /\ elements[i].type = "rect"
          /\ elements[i].width = 20 /\ elements[i].height = 20

\* C2: after any sequence of editor mutations, panel edits included, every
\* rect/image has width and height >= the minimum and every circle/polygon
\* has radius >= the minimum (10).
C2_MinimumAtEveryMutation ==
    \A i \in 1..Len(elements) :
        /\ elements[i].type \in {"rect", "image"} =>
               elements[i].width >= 10 /\ elements[i].height >= 10
        /\ elements[i].type \in {"circle", "polygon"} => elements[i].radius >= 10

\* C3: every rect satisfies 0 <= cornerRadius <= min(width, height) / 2 after
\* any sequence of slider edits, size edits and reconciled resize gestures.
C3_CornerRadiusBound ==
    \A i \in 1..Len(elements) :
        elements[i].type = "rect" =>
            /\ 0 <= elements[i].cornerRadius
            /\ 2 * elements[i].cornerRadius <= Min(elements[i].width, elements[i].height)

\* C4: a finished transform of a rect/image of size w x h with factors
\* (sx, sy) writes width = max(20, round(w * sx)), height = max(20, round(h * sy))
\* and leaves the node's scale at (1, 1).
C4_TransformWritesScaledSize ==
    [][TransformEndStep =>
         /\ nodeScale' = [x |-> ScaleDen, y |-> ScaleDen]
         /\ \A i \in 1..Len(elements) :
               (elements[i].id = selectedId /\ elements[i].type \in {"rect", "image"}) =>
                   /\ \E nw \in Nearby(elements[i].width * nodeScale.x, ScaleDen) :
                          /\ IsRounded(nw, elements[i].width * nodeScale.x, ScaleDen)
                          /\ elements'[i].width = Max(20, nw)
                   /\ \E nh \in Nearby(elements[i].height * nodeScale.y, ScaleDen) :
                          /\ IsRounded(nh, elements[i].height * nodeScale.y, ScaleDen)
                          /\ elements'[i].height = Max(20, nh)]_vars

\* C5: every reconciliation of a circle/polygon, anisotropic gestures included,
\* writes only radius = max(10, round(oldRadius * (scaleX + scaleY) / 2)), writes
\* no width or height, and leaves the element's bounding box square.
C5_RadiusOnlySquareBox ==
    [][TransformEndStep =>
         \A i \in 1..Len(elements) :
             (elements[i].id = selectedId /\ elements[i].type \in {"circle", "polygon"}) =>
                 /\ \E n \in Nearby(elements[i].radius * (nodeScale.x + nodeScale.y),
                                     2 * ScaleDen) :
                       /\ IsRounded(n, elements[i].radius * (nodeScale.x + nodeScale.y),
                                    2 * ScaleDen)
                       /\ elements'[i].radius = Max(10, n)
                 /\ elements'[i].width = Undef /\ elements'[i].height = Undef
                 /\ elements'[i].sides = elements[i].sides
                 /\ getBoundingBox(elements'[i]).width = getBoundingBox(elements'[i]).height
                 /\ getBoundingBox(elements'[i]).width = 2 * elements'[i].radius]_vars

\* A circle of radius 100 went through one gesture with factors 1.25 and 2
\* and was reconciled to radius round(162.5) = 163.
C5_Witness ==
    /\ AfterTransformEnd
    /\ gestures = 1
    /\ \E i \in 1..Len(elements) :
          /\ elements[i].id = lastOp.id
          /\ elements[i].type = "circle"
          /\ elements[i].radius = 163

\* C6: no two elements of the list share an id, and the id generated for a new
\* element (addElement, duplicateElement) was never used before in the session.
C6_UniqueFreshIds ==
    /\ [](\A i, j \in 1..Len(elements) : i # j => elements[i].id # elements[j].id)
    /\ [][lastOp'.op \in {"addElement", "duplicateElement"} => lastOp'.id \notin usedIds]_vars

SelectionValid == selectedId = NoId \/ selectedId \in Ids(elements)

\* C7: selectedId is always null or the id of an element of the list, and
\* deleteElement(id) with id = selectedId removes the element and sets
\* selectedId to null.
C7_SelectionValid ==
    /\ []SelectionValid
    /\ [][(lastOp'.op = "deleteElement" /\ lastOp'.id = selectedId) =>
            (selectedId' = NoId /\ lastOp'.id \notin Ids(elements'))]_vars

\* The selected element was deleted while another element stayed in the list.
C7_Witness ==
    /\ lastOp.op = "deleteElement"
    /\ lastOp.arg = 1
    /\ selectedId = NoId
    /\ elements # <<>>

ImportedTemplate == IF lastOp'.arg = 0 THEN saved[1] ELSE SampleTemplates[lastOp'.arg]

ImportStep == lastOp'.op = "importTemplate"

\* C8: importing an exported template, at once or into any later editor state,
\* yields a document equal to it in element list, backgroundColor,
\* backgroundImage and artboard width/height.
C8_ImportRestoresExport ==
    [][(ImportStep /\ lastOp'.arg = 0) =>
         /\ elements' = saved[1].elements
         /\ backgroundColor' = saved[1].backgroundColor
         /\ backgroundImage' = saved[1].backgroundImage
         /\ canvasSize'.width = saved[1].width
         /\ canvasSize'.height = saved[1].height]_vars

\* The background a template carries; the editor's default where it names none.
TemplateColor(template) ==
    IF template.backgroundColor = UndefStr THEN "#ffffff" ELSE template.backgroundColor

TemplateImage(template) ==
    IF template.backgroundImage = UndefStr THEN NullImg ELSE template.backgroundImage

\* C9: importTemplate(t) replaces element list and background together: after
\* it the list is t.elements and the background is t's background, never the
\* background of the previous document.
C9_ImportReplacesBackground ==
    [][ImportStep =>
         /\ elements' = ImportedTemplate.elements
         /\ backgroundColor' = TemplateColor(ImportedTemplate)
         /\ backgroundImage' = TemplateImage(ImportedTemplate)]_vars

WellFormed(template) ==
    \A i \in 1..Len(template.elements) : template.elements[i].type \in ShapeTypes

\* C10: an import of data that is no well-formed Template is aborted: elements,
\* backgroundColor, backgroundImage and selectedId keep their values.
C10_MalformedImportAborted ==
    [][(ImportStep /\ ~WellFormed(ImportedTemplate)) =>
         UNCHANGED <<elements, backgroundColor, backgroundImage, selectedId>>]_vars

\* C11: handlePublish with an empty element list never reaches publishTemplate:
\* it reports 'Canvas is empty', isPublishing stays false, publishedUrl and the
\* store are unchanged.
C11_EmptyCanvasNotPublished ==
    [][(lastOp'.op = "handlePublish" /\ Len(elements) = 0) =>
         /\ request' = <<>>
         /\ store' = store
         /\ isPublishing' = FALSE
         /\ publishedUrl' = publishedUrl
         /\ toasts' = Append(toasts, "Canvas is empty.")]_vars

\* After a successful publish the canvas was emptied and Publish was clicked again.
C11_Witness ==
    /\ lastOp = Op("handlePublish", NoId, 0)
    /\ store # {}
    /\ Len(elements) = 0
    /\ toasts[Len(toasts)] = "Canvas is empty."

FailureToasts == {"Failed to publish.", "Failed to publish. Try again."}

PublishFailedStep ==
    \/ lastOp'.op = "publishTemplateThrew"
    \/ lastOp'.op = "publishTemplateReturned" /\ lastOp'.arg \in {2, 3}

\* C12: when a publish attempt fails at the store (publishTemplate returns null
\* or throws) the editor shows a failure notification, publishedUrl is not
\* set, and elements, background and artboard size are unchanged.
C12_FailedPublishNotified ==
    [][PublishFailedStep =>
         /\ Len(toasts') = Len(toasts) + 1
         /\ toasts'[Len(toasts')] \in FailureToasts
         /\ publishedUrl' = publishedUrl
         /\ UNCHANGED <<elements, backgroundColor, backgroundImage, canvasSize>>]_vars

\* C13: every successful publish stores its template under a slug no stored
\* template has; a stored row is never replaced by a later publish and the
\* stored slugs stay pairwise distinct.
C13_SlugNeverOverwritten ==
    /\ [](\A r1, r2 \in store : r1.slug = r2.slug => r1 = r2)
    /\ [][store \subseteq store']_vars
    /\ [][(lastOp'.op = "publishTemplateReturned" /\ lastOp'.arg = 1) =>
            /\ request[1].slug \notin Slugs(store)
            /\ store' = store \cup {request[1]}]_vars

\* A publish whose generated slug was already stored came back rejected, and
\* the row stored under that slug holds a template other than the rejected one.
C13_Witness ==
    /\ lastOp = Op("publishTemplateReturned", NoId, 2)
    /\ \E r \in store : r.elements # elements

\* C14: when the Generator's load of a slug finds no stored template it ends
\* with isLoading false in the not-found error state, renders no template,
\* and does not go on to render a template while the slug stays the same.
C14_NotFoundIsTerminal ==
    /\ [][(lastOp'.op = "loadTemplateReturned" /\ lastOp'.arg = 2) =>
            /\ generator'.isLoading = FALSE
            /\ generator'.error = "Template not found"
            /\ GeneratorView' = "error"]_vars
    /\ [][(generator.error = "Template not found" /\ generator'.slug = generator.slug) =>
            GeneratorView' = "error"]_vars

\* The current slug was looked up while another slug was stored, and no row
\* was found.
C14_Witness ==
    /\ lastOp.op = "loadTemplateReturned" /\ lastOp.arg = 2
    /\ generator.slug = lastOp.id
    /\ store # {}
    /\ generator.slug \notin Slugs(store)
    /\ GeneratorView = "error"

\* C15: a placeholder shape with no image available is drawn with the dashed
\* placeholder outline and upload affordance when isGeneratorMode is false and
\* with neither when isGeneratorMode is true.
C15_PlaceholderOnlyInEditor ==
    \A i \in 1..Len(elements) :
        (elements[i].type \in Shapes /\ elements[i].isPlaceholder
            /\ ~hasImage(elements[i])) =>
                (placeholderIndicator(elements[i]) <=> ~renderProps.isGeneratorMode)

\* C20: an element with isPlaceholder false is drawn with its solid fill colour
\* whether or not an image is available; an image fill is used only when
\* isPlaceholder is true and an image has decoded.
C20_SolidFillUnlessPlaceholder ==
    \A i \in 1..Len(elements) :
        /\ ~elements[i].isPlaceholder =>
               (renderShape(elements[i]) = elements[i].fill /\ ~renderImage(elements[i]))
        /\ (elements[i].type \in Shapes /\ renderImage(elements[i])) =>
               (elements[i].isPlaceholder /\ imageSrc(elements[i]) \in decoded)

\* The default geometry of a variant.
HasDefaultGeometry(e, type) ==
    /\ type = "rect" => (e.width = 200 /\ e.height = 200 /\ e.cornerRadius = 0)
    /\ type = "circle" => e.radius = 100
    /\ type = "polygon" => (e.radius = 100 /\ e.sides = 6)
    /\ type = "text" => (e.width = 300 /\ e.fontSize = 48)
    /\ type = "image" => (e.width > 0 /\ e.height > 0)

\* C16: addElement(type), for each variant type, appends exactly one element to
\* the end of the list, with the variant's default geometry, placed at
\* (canvasSize.width / 2, canvasSize.height / 2), and selects it; the elements
\* already in the list are unchanged.
C16_AddAppendsCenteredSelected ==
    [][\A type \in ShapeTypes, id \in IdSpace :
         addElement(type, id) =>
             /\ Len(elements') = Len(elements) + 1
             /\ SubSeq(elements', 1, Len(elements)) = elements
             /\ LET e == elements'[Len(elements')]
                IN  /\ e.type = type
                    /\ 2 * e.x = canvasSize.width /\ 2 * e.y = canvasSize.height
                    /\ HasDefaultGeometry(e, type)
                    /\ selectedId' = e.id]_vars

\* C17: when background uploads overlap, the completion of an earlier one is
\* discarded: whatever the order in which the loads complete, once all have
\* completed the backgroundImage and the artboard size are those of the upload
\* issued last.
C17_LatestUploadWins ==
    (lastOp.op = "imgOnload" /\ uploads = {}) =>
        /\ backgroundImage = issued[Len(issued)].src
        /\ canvasSize = [width |-> issued[Len(issued)].width,
                         height |-> issued[Len(issued)].height]

\* C18: a resize gesture on a text element changes its width, to
\* max(50, round(oldWidth * scaleX)), and at most x, y and rotation besides;
\* fontSize and every other attribute keep their values for all scale factors.
C18_TextGestureOnlyWidth ==
    [][TransformEndStep =>
         \A i \in 1..Len(elements) :
             (elements[i].id = selectedId /\ elements[i].type = "text") =>
                 /\ \E n \in Nearby(elements[i].width * nodeScale.x, ScaleDen) :
                        /\ IsRounded(n, elements[i].width * nodeScale.x, ScaleDen)
                        /\ elements'[i].width = Max(50, n)
                 /\ \A f \in DOMAIN elements[i] \ {"x", "y", "rotation", "width"} :
                        elements'[i][f] = elements[i][f]]_vars

\* A text of width 300 was stretched by the factor 1.25 to width 375 and kept
\* its font size.
C18_Witness ==
    /\ AfterTransformEnd
    /\ gestures = 1
    /\ \E i \in 1..Len(elements) :
          /\ elements[i].id = lastOp.id
          /\ elements[i].type = "text"
          /\ elements[i].width = 375
          /\ elements[i].fontSize = 48

AtLeast20(b) == b.width.n >= 20 * b.width.d /\ b.height.n >= 20 * b.height.d

\* C19: boundBoxFunc returns the prior box unchanged whenever the proposed box
\* has width < 20 or height < 20, and whenever the prior box is at least
\* 20 x 20 so is the box it returns, with the aspect lock off and with it on.
C19_BoundBoxAtLeast20 ==
    /\ [][\A w \in ProposedWidths, h \in ProposedHeights :
            (dragAnchor(Box(w, h)) /\ (w < 20 \/ h < 20)) => box' = box]_vars
    /\ [][(lastOp'.op = "boundBoxFunc" /\ AtLeast20(box)) => AtLeast20(box')]_vars

\* C21: in generator mode a placeholder shape that stores a preview bitmap is
\* never filled with that bitmap: the image, once decoded, is the photo the
\* generator supplies, and without a supplied photo the element has no image.
C21_GeneratorFillsWithUserImage ==
    renderProps.isGeneratorMode =>
        \A i \in 1..Len(elements) :
            (elements[i].type \in Shapes /\ Truthy(elements[i].placeholderImage)) =>
                IF Truthy(renderProps.userImage)
                THEN /\ image(elements[i]) \in {UndefStr, renderProps.userImage}
                     /\ renderProps.userImage \in decoded => renderImage(elements[i])
                ELSE ~hasImage(elements[i])

\* C22: a shape with N stroke layers gets exactly N underlays, in array order,
\* each filled with its layer's colour: for a rect a rectangle of size
\* (width + s.width, height + s.width) centred on the element, for a circle a
\* circle of radius radius + s.width / 2, for a polygon a polygon of the same
\* sides whose radius is expanded by the stroke; the editor renderer and the
\* generator renderer produce the same underlays for the same element.
C22_StrokeUnderlays ==
    \A k \in 1..Len(elements) :
        LET e == elements[k]
            editor == renderStrokes(e)
        IN  e.type \in Shapes =>
              /\ Len(editor) = Len(e.strokes)
              /\ \A i \in 1..Len(e.strokes) :
                    LET s == e.strokes[i]
                        u == editor[i]
                    IN  /\ u.fill = s.color
                        /\ e.type = "rect" =>
                              /\ u.node = "Rect"
                              /\ u.size = <<e.width + s.width, e.height + s.width>>
                              /\ u.x2 + u.size[1] = 2 * e.x
                              /\ u.y2 + u.size[2] = 2 * e.y
                        /\ e.type = "circle" =>
                              /\ u.node = "Circle"
                              /\ u.size = 2 * e.radius + s.width
                        /\ e.type = "polygon" =>
                              /\ u.node = "Line"
                              /\ u.sides = e.sides
                              /\ u.size = 2 * e.radius + s.width
              /\ RenderShape(e) = editor

\* C23: isPlaceholder has no effect on a text element: on the Generator page a
\* text element with isPlaceholder true is not listed as a photo slot, is
\* passed no user image, and does not keep the download disabled.
C23_TextPlaceholderIgnored ==
    GeneratorView = "template" =>
        \A i \in textElements :
            generator.elements[i].isPlaceholder =>
                /\ i \notin placeholderElements
                /\ UserImageProp(generator.elements[i]) = <<>>
                /\ isDownloadDisabled =>
                      \E j \in placeholderElements \ textElements :
                          generator.userImages[generator.elements[j].id] = <<>>

\* Every element with isPlaceholder true has an entry in userImages.
AllSupplied ==
    \A i \in 1..Len(generator.elements) :
        generator.elements[i].isPlaceholder =>
            generator.userImages[generator.elements[i].id] # <<>>

\* C24: the download is enabled exactly when every element with isPlaceholder
\* true has an entry in userImages (disabled iff some placeholder has no
\* photo), and once all are supplied it stays enabled under every later
\* action of the page.
C24_DownloadEnabledIffAllSupplied ==
    /\ [](GeneratorView = "template" => (isDownloadDisabled <=> ~AllSupplied))
    /\ [](PageInteractive => ((ENABLED handleDownload) <=> AllSupplied))
    /\ [][(GeneratorView = "template" /\ AllSupplied) =>
             (AllSupplied' /\ ~isDownloadDisabled')]_vars

\* Two slots are filled, one of them after the other, and the image is downloaded.
C24_Witness ==
    /\ lastOp.op = "handleDownload"
    /\ Cardinality(placeholderElements) = 2
    /\ AllSupplied

\* C27: once the template is loaded, every action of the page keeps the
\* element list's ids and order and every attribute of every element, except
\* the text attribute of text elements.
C27_OnlyTextOfTextChanges ==
    [][(GeneratorView = "template" /\ GeneratorView' = "template") =>
          /\ Len(generator.elements') = Len(generator.elements)
          /\ \A i \in 1..Len(generator.elements) :
                LET a == generator.elements[i]
                    b == generator.elements'[i]
                IN  /\ b = [a EXCEPT !.text = b.text]
                    /\ a.type # "text" => b = a]_vars

\* C28: the image stored in userImages[id] comes from a file that was picked
\* while id was the cropping target.
C28_PhotoStoredForItsSlot ==
    \A id \in IdSpace :
        generator.userImages[id] # <<>> => generator.userImages[id][1].target = id

\* The clicks and the key press that the claim says clear the selection.
ClearingClick ==
    \/ \E target \in {"stage", "background"} : handleStageClick(target)
    \/ \E isSpacePressed \in BOOLEAN : handleMouseDown(0, isSpacePressed, TRUE)
    \/ \E inputFocused \in BOOLEAN : handleKeyDown(inputFocused)

\* Those of them that neither start a pan nor are typed into a form field.
ClearingClickOutsideInputs ==
    \/ \E target \in {"stage", "background"} : handleStageClick(target)
    \/ handleMouseDown(0, FALSE, TRUE)
    \/ handleKeyDown(FALSE)

\* The Transformer holds at most one node, that of the selected element once
\* the effect has run, and none in generator mode; a cleared selection leads
\* to a Transformer without nodes.
TransformerFollowsSelection ==
    /\ [](Len(nodes) <= 1)
    /\ []((TransformerSettled /\ nodes # <<>>) => nodes = <<selectedId>>)
    /\ [](renderProps.isGeneratorMode => nodes = <<>>)
    /\ (selectedId = NoId) ~> (nodes = <<>>)

C26_CoverFit ==
    pattern # NoPattern =>
        LET shape == ShapeBox(elements[1])
            img == NaturalSize(pattern.image)
            W == Rational(shape.width, 1)
            H == Rational(shape.height, 1)
            iw == Rational(img.width, 1)
            ih == Rational(img.height, 1)
            s == RMax(Over(W, iw), Over(H, ih))
        IN  /\ pattern.fillPatternScaleX = s
            /\ pattern.fillPatternScaleY = s
            /\ ~Less(Times(iw, s), W)
            /\ ~Less(Times(ih, s), H)
            /\ pattern.fillPatternOffsetX = Over(Over(Minus(Times(iw, s), W), Rational(2, 1)), s)
            /\ pattern.fillPatternOffsetY = Over(Over(Minus(Times(ih, s), H), Rational(2, 1)), s)

ElementBag(els) ==
    [e \in {els[i] : i \in 1..Len(els)} |-> Cardinality({i \in 1..Len(els) : els[i] = e})]

\* C30: moveElement(id, direction) only reorders: it swaps the element with
\* its neighbour above ('up', index + 1) or below ('down', index - 1), does
\* nothing when the element is already topmost or bottommost or the id is
\* unknown, keeps exactly the same elements, and 'up' followed by 'down' on the
\* same id restores the original order.
C30_MoveOnlyReorders ==
    [][\A id \in IdSpace, direction \in {"up", "down"} :
         moveElement(id, direction) =>
            LET index == FindIndex(elements, id)
                targetIndex == IF direction = "up" THEN index + 1 ELSE index - 1
            IN  /\ IF index = 0 \/ targetIndex < 1 \/ targetIndex > Len(elements)
                   THEN elements' = elements
                   ELSE /\ elements'[index] = elements[targetIndex]
                        /\ elements'[targetIndex] = elements[index]
                        /\ \A k \in 1..Len(elements) \ {index, targetIndex} :
                              elements'[k] = elements[k]
                /\ ElementBag(elements') = ElementBag(elements)
                /\ direction = "up" => Moved(elements', id, "down") = elements]_vars

====
